---- MODULE Spec2Model ----
(***************************************************************************)
(* Output core of avocado (avocado/core/output.py): the line-buffering     *)
(* LoggingFile, the TermSupport string decorators, the Paginator, the      *)
(* ProgressStreamHandler and the View facade.                              *)
(*                                                                         *)
(* A Python string is a sequence: of one-character strings for the data    *)
(* of LoggingFile, of chunks (one escape sequence or one literal each)     *)
(* for terminal strings; + is \o and ''.join is join.                      *)
(*                                                                         *)
(* Each class has its own specification (SpecLF, SpecView, SpecFileLog,    *)
(* SpecPager, SpecEmit) over the same variables; the objects a             *)
(* specification does not exercise stay as constructed.                    *)
(***************************************************************************)
EXTENDS Integers, Sequences, FiniteSets, TLC

\* ------------------------------------------------------------------ bounds
MaxFrag == 2        \* longest fragment handed to LoggingFile.write
MaxLines == 2       \* longest iterable handed to LoggingFile.writelines
MaxWritten == 3     \* total characters written to one LoggingFile
MaxFlush == 1       \* flush() calls on one LoggingFile
MaxPipe == 4        \* messages the pager process reads
MaxHandlers == 2    \* file handlers created by start_file_logging
MaxRecords == 1     \* records written through one file handler
MaxEmits == 2       \* ProgressStreamHandler.emit calls

\* --------------------------------------------------------------- constants
DEBUG == 10
INFO == 20
ERROR == 40

None == "None"
NL == "\n"
Char == {"a", "b", NL}
Prefixes == {<< >>, <<">">>}

VARIABLES
    \* LoggingFile
    prefix,         \* self._prefix
    level,          \* self._level
    buffer,         \* self._buffer: list of pending pieces
    logged,         \* calls self._logger.log(level, msg), in order
    written,        \* history: concatenation of all data passed to write
    nflush,         \* history: number of flush() calls
    flushed_at,     \* history: Len(written) at the last flush()
    lf_op,          \* history: the last LoggingFile call, with its size
    \* TermSupport (the module's term_support)
    term,           \* HEADER, PASS, SKIP, FAIL, ERROR, NOT_FOUND, WARN, PARTIAL, ENDC
    \* Paginator
    paginator,      \* what get_paginator() returned: "Paginator", "stdout"; None before
    pager_cmd,      \* the command os.popen was given
    pipe,           \* self.pipe: "open", "broken" (pager exited), "closed"; None without
    pager_recv,     \* number of messages the pager process has read
    \* View
    list_mode,      \* self.list_mode
    throbber_pos,   \* self.throbber_pos
    console_calls,  \* calls self.console_log.log(...) made by the last operation
    pager_calls,    \* calls self.paginator.write(...) made by the last operation
    file_handler,   \* self.file_handler: index into handlers, 0 while unset
    job_unique_id,  \* self.job_unique_id
    debuglog,       \* self.debuglog
    handlers,       \* the logging.FileHandler objects created so far
    test_handlers,  \* logging.getLogger('avocado.test').handlers
    linux_handlers, \* logging.getLogger('avocado.linux').handlers
    delivered,      \* handlers that wrote the last record logged
    \* ProgressStreamHandler
    formatter,      \* the handler's format string
    stream,         \* what self.stream has been written, in order
    stream_flushed, \* Len(stream) at the last flush
    handled,        \* records handed to self.handleError
    em_n,           \* history: number of emit calls
    \* every object
    op,             \* history: the last operation, with its arguments
    raised          \* the exception the last operation propagated to its caller

lfVars == <<prefix, level, buffer, logged, written, nflush, flushed_at, lf_op>>
termVars == <<term>>
pagerVars == <<paginator, pager_cmd, pipe, pager_recv>>
uiVars == <<list_mode, throbber_pos, console_calls, pager_calls>>
fileVars == <<file_handler, job_unique_id, debuglog, handlers, test_handlers,
              linux_handlers, delivered>>
emitVars == <<formatter, stream, stream_flushed, handled, em_n>>
callVars == <<op, raised>>
vars == <<lfVars, termVars, pagerVars, uiVars, fileVars, emitVars, callVars>>

\* ----------------------------------------------------------------- strings
Range(s) == {s[i] : i \in 1..Len(s)}

RECURSIVE StrUpTo(_)
\* all strings over Char of length <= n
StrUpTo(n) ==
    IF n = 0 THEN {<< >>}
    ELSE LET shorter == StrUpTo(n - 1)
         IN  shorter \cup {Append(s, c) : s \in shorter, c \in Char}

RECURSIVE join(_)
\* ''.join(pieces)
join(pieces) ==
    IF pieces = << >> THEN << >>
    ELSE Head(pieces) \o join(Tail(pieces))

RECURSIVE split(_)
\* data.split('\n'): never empty, the last piece is what follows the last '\n'
split(data) ==
    IF NL \notin Range(data) THEN <<data>>
    ELSE LET i == CHOOSE k \in 1..Len(data) :
                    data[k] = NL /\ \A j \in 1..(k - 1) : data[j] # NL
         IN  <<SubSeq(data, 1, i - 1)>> \o split(SubSeq(data, i + 1, Len(data)))

\* -------------------------------------------------------------- LoggingFile
\* The sink's mutable part as a record [buffer, logged].
_log_line(s, line) ==
    [s EXCEPT !.logged = Append(@, [level |-> level, msg |-> prefix \o line])]

_flush_buffer(s) ==
    IF s.buffer # << >>
    THEN [_log_line(s, join(s.buffer)) EXCEPT !.buffer = << >>]
    ELSE s

RECURSIVE log_lines(_, _)
\* for line in lines: self.__log_line(line)
log_lines(s, lines) ==
    IF lines = << >> THEN s
    ELSE log_lines(_log_line(s, Head(lines)), Tail(lines))

write_keep_empty_tail(s, data) ==
    LET data_lines == split(data)
        n == Len(data_lines)
        s1 == IF n > 1
              THEN _flush_buffer([s EXCEPT !.buffer = Append(@, data_lines[1])])
              ELSE s
        s2 == log_lines(s1, SubSeq(data_lines, 2, n - 1))
    IN  [s2 EXCEPT !.buffer = Append(@, data_lines[n])]

write_no_first_flush(s, data) ==
    LET data_lines == split(data)
        n == Len(data_lines)
        s1 == IF n > 1 /\ data_lines[1] # << >>
              THEN _flush_buffer([s EXCEPT !.buffer = Append(@, data_lines[1])])
              ELSE s
        s2 == log_lines(s1, SubSeq(data_lines, 2, n - 1))
    IN  IF data_lines[n] # << >>
        THEN [s2 EXCEPT !.buffer = Append(@, data_lines[n])]
        ELSE s2

write(s, data) ==
    LET data_lines == split(data)
        n == Len(data_lines)
        s1 == IF n > 1
              THEN _flush_buffer([s EXCEPT !.buffer = Append(@, data_lines[1])])
              ELSE s
        s2 == log_lines(s1, SubSeq(data_lines, 2, n - 1))
    IN  IF data_lines[n] # << >>
        THEN [s2 EXCEPT !.buffer = Append(@, data_lines[n])]
        ELSE s2

RECURSIVE writelines_reversed(_, _)
writelines_reversed(s, lines) ==
    IF lines = << >> THEN s
    ELSE write(writelines_reversed(s, Tail(lines)), Head(lines))

RECURSIVE writelines(_, _)
\* for data in lines: self.write(data)
writelines(s, lines) ==
    IF lines = << >> THEN s
    ELSE writelines(write(s, Head(lines)), Tail(lines))

Sink == [buffer |-> buffer, logged |-> logged]

Min(a, b) == IF a < b THEN a ELSE b

\* inputs: what still fits under MaxWritten
Room == MaxWritten - Len(written)
Fragments(room) == StrUpTo(Min(MaxFrag, room))

RECURSIVE FragLists(_, _)
\* the lists of at most k fragments with at most room characters in all
FragLists(k, room) ==
    IF k = 0 THEN {<< >>}
    ELSE {<< >>} \cup
         UNION {{<<f>> \o rest : rest \in FragLists(k - 1, room - Len(f))} :
                f \in Fragments(room)}

InitLF ==
    /\ prefix \in Prefixes
    /\ level = DEBUG
    /\ buffer = << >>
    /\ logged = << >>
    /\ written = << >>
    /\ nflush = 0
    /\ flushed_at = 0
    /\ lf_op = [op |-> "init", n |-> 0]

LFWrite(data) ==
    /\ Len(data) <= Room
    /\ LET s == write(Sink, data)
       IN  /\ buffer' = s.buffer
           /\ logged' = s.logged
    /\ written' = written \o data
    /\ lf_op' = [op |-> "write", n |-> 1]
    /\ UNCHANGED <<prefix, level, nflush, flushed_at>>
    /\ UNCHANGED <<termVars, pagerVars, uiVars, fileVars, emitVars, callVars>>

LFWritelines(lines) ==
    /\ Len(join(lines)) <= Room
    /\ LET s == writelines(Sink, lines)
       IN  /\ buffer' = s.buffer
           /\ logged' = s.logged
    /\ written' = written \o join(lines)
    /\ lf_op' = [op |-> "writelines", n |-> Len(lines)]
    /\ UNCHANGED <<prefix, level, nflush, flushed_at>>
    /\ UNCHANGED <<termVars, pagerVars, uiVars, fileVars, emitVars, callVars>>

LFFlush ==
    /\ nflush < MaxFlush
    /\ LET s == _flush_buffer(Sink)
       IN  /\ buffer' = s.buffer
           /\ logged' = s.logged
    /\ nflush' = nflush + 1
    /\ flushed_at' = Len(written)
    /\ lf_op' = [op |-> "flush", n |-> 0]
    /\ UNCHANGED <<prefix, level, written>>
    /\ UNCHANGED <<termVars, pagerVars, uiVars, fileVars, emitVars, callVars>>

NextLF ==
    \/ \E data \in Fragments(Room) : LFWrite(data)
    \/ \E lines \in FragLists(MaxLines, Room) : LFWritelines(lines)
    \/ LFFlush

\* -------------------------------------------------------------- TermSupport
COLOR_BLUE == <<"ESC[94m">>
COLOR_GREEN == <<"ESC[92m">>
COLOR_YELLOW == <<"ESC[93m">>
COLOR_RED == <<"ESC[91m">>
CONTROL_END == <<"ESC[0m">>
MOVE_BACK == <<"ESC[1D">>
MOVE_FORWARD == <<"ESC[1C">>
allowed_terms == {"linux", "xterm", "xterm-256color", "vt100", "screen",
                  "screen-256color"}

\* os.environ.get("TERM"): an allowed type, another type, or unset
TermEnv == {"xterm", "screen-256color", "dumb", None}

disable(t) ==
    [t EXCEPT !.HEADER = << >>, !.PASS = << >>, !.SKIP = << >>, !.FAIL = << >>,
              !.ERROR = << >>, !.NOT_FOUND = << >>, !.WARN = << >>,
              !.PARTIAL = << >>, !.ENDC = << >>]

\* TermSupport.__init__, given os.isatty(1) and os.environ.get("TERM")
TermSupport(isatty, TERM) ==
    LET t == [HEADER |-> COLOR_BLUE, PASS |-> COLOR_GREEN, SKIP |-> COLOR_YELLOW,
              FAIL |-> COLOR_RED, ERROR |-> COLOR_RED, NOT_FOUND |-> COLOR_YELLOW,
              WARN |-> COLOR_YELLOW, PARTIAL |-> COLOR_YELLOW, ENDC |-> CONTROL_END]
    IN  IF (~isatty) \/ (TERM \notin allowed_terms) THEN disable(t) ELSE t

header_str(t, msg) == t.HEADER \o msg \o t.ENDC
fail_header_str(t, msg) == t.FAIL \o msg \o t.ENDC
healthy_str(t, msg) == t.PASS \o msg \o t.ENDC
partial_str(t, msg) == t.PARTIAL \o msg \o t.ENDC
pass_str(t) == MOVE_BACK \o t.PASS \o <<"PASS">> \o t.ENDC
skip_str(t) == MOVE_BACK \o t.SKIP \o <<"SKIP">> \o t.ENDC
fail_str(t) == MOVE_BACK \o t.FAIL \o <<"FAIL">> \o t.ENDC
error_str(t) == MOVE_BACK \o t.ERROR \o <<"ERROR">> \o t.ENDC
not_found_str(t) == MOVE_BACK \o t.NOT_FOUND \o <<"NOT_FOUND">> \o t.ENDC
warn_str(t) == MOVE_BACK \o t.WARN \o <<"WARN">> \o t.ENDC

InitTerm == \E isatty \in BOOLEAN, TERM \in TermEnv : term = TermSupport(isatty, TERM)

\* ---------------------------------------------------------------- Paginator
Unset == << >>      \* a command or variable that is None
PagerEnv == {Unset, <<"more">>}     \* os.environ.get('PAGER')

\* Paginator.__init__ up to the check: the command, Unset when none is found
pager_command(less_found, PAGER) ==
    LET paginator_0 == IF less_found THEN <<"/usr/bin/less", " -FRSX">> ELSE Unset
    IN  IF PAGER # Unset THEN PAGER ELSE paginator_0

\* get_paginator(): a Paginator, or sys.stdout on PagerNotFoundError
get_paginator(less_found, PAGER) ==
    IF pager_command(less_found, PAGER) = Unset THEN "stdout" ELSE "Paginator"

\* self.pipe.write(msg): the exception the file object raises, None when the
\* pager reads the message.  A pipe whose reader exited raises IOError
\* (EPIPE); a closed file object raises ValueError.
pipe_write ==
    CASE pipe = "open" -> None
      [] pipe = "broken" -> "IOError"
      [] pipe = "closed" -> "ValueError"

\* Paginator.write: what it propagates; only IOError is caught
Paginator_write_raises == IF pipe_write = "IOError" THEN None ELSE pipe_write

\* self.paginator.write(msg), for the Paginator and for sys.stdout
paginator_write(msg) ==
    IF paginator = "Paginator"
    THEN /\ pager_recv' = IF pipe_write = None THEN pager_recv + 1 ELSE pager_recv
         /\ raised' = Paginator_write_raises
    ELSE /\ pager_recv' = pager_recv
         /\ raised' = None

\* the pager has room to read one more message (bounds the model)
PagerRoom == (paginator = "Paginator" /\ pipe = "open") => pager_recv < MaxPipe

InitPager ==
    \E less_found \in BOOLEAN, PAGER \in PagerEnv :
        /\ paginator = get_paginator(less_found, PAGER)
        /\ pager_cmd = pager_command(less_found, PAGER)
        /\ pipe = IF paginator = "Paginator" THEN "open" ELSE None
        /\ pager_recv = 0

PagerMsgs == {<<"m">>, <<"m", NL>>, <<"n", NL>>}

\* a caller of get_paginator() writes to what it got
PaginatorWrite(msg) ==
    /\ PagerRoom
    /\ paginator_write(msg)
    /\ pager_calls' = <<msg>>
    /\ op' = [op |-> "write", msg |-> msg]
    /\ UNCHANGED <<paginator, pager_cmd, pipe>>
    /\ UNCHANGED <<list_mode, throbber_pos, console_calls>>
    /\ UNCHANGED <<lfVars, termVars, fileVars, emitVars>>

\* Paginator.__del__: closes the pipe; an IOError of close() is swallowed.
\* The object stays usable when the method is called by name or the holder
\* closes self.pipe itself: a later write finds the file object closed.
Paginator__del__ ==
    /\ paginator = "Paginator"
    /\ pipe' = "closed"
    /\ raised' = None
    /\ op' = [op |-> "__del__"]
    /\ UNCHANGED <<paginator, pager_cmd, pager_recv>>
    /\ UNCHANGED <<lfVars, termVars, uiVars, fileVars, emitVars>>

\* the pager process exits (the user quits less): the pipe loses its reader
PagerExit ==
    /\ pipe = "open"
    /\ pipe' = "broken"
    /\ op' = [op |-> "pager_exit"]
    /\ UNCHANGED <<paginator, pager_cmd, pager_recv, raised>>
    /\ UNCHANGED <<lfVars, termVars, uiVars, fileVars, emitVars>>

NextPager ==
    \/ \E msg \in PagerMsgs : PaginatorWrite(msg)
    \/ Paginator__del__
    \/ PagerExit

\* --------------------------------------------------------------------- View
THROBBER_STEPS == <<"-", "\\", "|", "/">>
THROBBER_MOVES == <<MOVE_BACK \o <<THROBBER_STEPS[1]>>,
                    MOVE_BACK \o <<THROBBER_STEPS[2]>>,
                    MOVE_BACK \o <<THROBBER_STEPS[3]>>,
                    MOVE_BACK \o <<THROBBER_STEPS[4]>>>>

\* " (%.2f s)" % t_elapsed, for t_elapsed given in hundredths of a second
DigitStr == <<"0", "1", "2", "3", "4", "5", "6", "7", "8", "9">>
Digit(d) == DigitStr[d + 1]
RECURSIVE Digits(_)
Digits(n) == IF n < 10 THEN <<Digit(n)>> ELSE Digits(n \div 10) \o <<Digit(n % 10)>>
elapsed_str(t) ==
    <<" (">> \o Digits(t \div 100) \o <<".", Digit((t \div 10) % 10), Digit(t % 10)>>
             \o <<" s)">>

\* View.log: one call of paginator.write or one call of console_log.log
log_always_newline(msg, lvl, skip_newline) ==
    IF list_mode
    THEN /\ pager_calls' = <<msg \o <<NL>>>>
         /\ console_calls' = << >>
         /\ paginator_write(msg \o <<NL>>)
    ELSE /\ console_calls' = <<[level |-> lvl, msg |-> msg,
                               extra |-> [skip_newline |-> skip_newline]]>>
         /\ pager_calls' = << >>
         /\ pager_recv' = pager_recv
         /\ raised' = None

log(msg, lvl, skip_newline) ==
    LET extra == [skip_newline |-> skip_newline]
    IN  IF list_mode
        THEN LET msg_1 == IF ~skip_newline THEN msg \o <<NL>> ELSE msg
             IN  /\ pager_calls' = <<msg_1>>
                 /\ console_calls' = << >>
                 /\ paginator_write(msg_1)
        ELSE /\ console_calls' = <<[level |-> lvl, msg |-> msg, extra |-> extra]>>
             /\ pager_calls' = << >>
             /\ pager_recv' = pager_recv
             /\ raised' = None

_log_ui_info(msg, skip_newline) == log(msg, INFO, skip_newline)
_log_ui_error(msg, skip_newline) == log(msg, ERROR, skip_newline)
log_ui_healthy(msg, skip_newline) == _log_ui_info(healthy_str(term, msg), skip_newline)
log_ui_partial(msg, skip_newline) == _log_ui_info(partial_str(term, msg), skip_newline)
log_ui_header(msg) == _log_ui_info(header_str(term, msg), FALSE)
log_ui_error(msg) == _log_ui_info(fail_header_str(term, msg), FALSE)
log_ui_status_pass(t_elapsed) ==
    _log_ui_info(pass_str(term) \o elapsed_str(t_elapsed), FALSE)
log_ui_status_error(t_elapsed) ==
    _log_ui_error(error_str(term) \o elapsed_str(t_elapsed), FALSE)
log_ui_status_not_found(t_elapsed) ==
    _log_ui_error(not_found_str(term) \o elapsed_str(t_elapsed), FALSE)
log_ui_status_fail(t_elapsed) ==
    _log_ui_error(fail_str(term) \o elapsed_str(t_elapsed), FALSE)
log_ui_status_skip(t_elapsed) == _log_ui_info(skip_str(term), FALSE)
log_ui_status_warn(t_elapsed) ==
    _log_ui_error(warn_str(term) \o elapsed_str(t_elapsed), FALSE)

throbber_wraps_early(pos) ==
    IF pos = Len(THROBBER_MOVES) - 2 THEN 0 ELSE pos + 1

\* the phase after one call of log_ui_throbber_progress
throbber_next(pos) ==
    IF pos = Len(THROBBER_MOVES) - 1 THEN 0 ELSE pos + 1

\* an exception of self.log leaves the method before the phase is advanced
log_ui_throbber_progress(progress_from_test) ==
    /\ IF progress_from_test
       THEN log_ui_healthy(THROBBER_MOVES[throbber_pos + 1], TRUE)
       ELSE log_ui_partial(THROBBER_MOVES[throbber_pos + 1], TRUE)
    /\ throbber_pos' = IF raised' # None THEN throbber_pos
                       ELSE throbber_next(throbber_pos)

\* View.__init__(list_mode=...)
InitUI ==
    /\ list_mode \in BOOLEAN
    /\ throbber_pos = 0
    /\ console_calls = << >>
    /\ pager_calls = << >>

Msgs == {<<"m">>}
Elapsed == {150}

\* what a View method leaves alone besides what self.log touches
UIFrame ==
    /\ UNCHANGED <<list_mode, paginator, pager_cmd, pipe>>
    /\ UNCHANGED <<lfVars, termVars, fileVars, emitVars>>

ViewLog(msg, lvl, skip_newline) ==
    /\ PagerRoom
    /\ log(msg, lvl, skip_newline)
    /\ op' = [op |-> "log", msg |-> msg, level |-> lvl, skip_newline |-> skip_newline]
    /\ UNCHANGED throbber_pos
    /\ UIFrame

ViewLogUi(name, msg, skip_newline) ==
    /\ PagerRoom
    /\ CASE name = "log_ui_healthy" -> log_ui_healthy(msg, skip_newline)
         [] name = "log_ui_partial" -> log_ui_partial(msg, skip_newline)
         [] name = "log_ui_header" -> log_ui_header(msg)
         [] name = "log_ui_error" -> log_ui_error(msg)
    /\ op' = [op |-> name, msg |-> msg, skip_newline |-> skip_newline]
    /\ UNCHANGED throbber_pos
    /\ UIFrame

ViewLogUiStatus(name, t_elapsed) ==
    /\ PagerRoom
    /\ CASE name = "log_ui_status_pass" -> log_ui_status_pass(t_elapsed)
         [] name = "log_ui_status_error" -> log_ui_status_error(t_elapsed)
         [] name = "log_ui_status_not_found" -> log_ui_status_not_found(t_elapsed)
         [] name = "log_ui_status_fail" -> log_ui_status_fail(t_elapsed)
         [] name = "log_ui_status_skip" -> log_ui_status_skip(t_elapsed)
         [] name = "log_ui_status_warn" -> log_ui_status_warn(t_elapsed)
    /\ op' = [op |-> name, t_elapsed |-> t_elapsed]
    /\ UNCHANGED throbber_pos
    /\ UIFrame

ViewThrobber(progress_from_test) ==
    /\ PagerRoom
    /\ log_ui_throbber_progress(progress_from_test)
    /\ op' = [op |-> "log_ui_throbber_progress",
              progress_from_test |-> progress_from_test]
    /\ UIFrame

\* term_support.disable()
TermDisable ==
    /\ term' = disable(term)
    /\ op' = [op |-> "disable"]
    /\ raised' = None
    /\ UNCHANGED <<lfVars, pagerVars, uiVars, fileVars, emitVars>>

DecoratedOps == {"log_ui_healthy", "log_ui_partial"}
HeaderOps == {"log_ui_header", "log_ui_error"}
StatusOps == {"log_ui_status_pass", "log_ui_status_error", "log_ui_status_not_found",
              "log_ui_status_fail", "log_ui_status_skip", "log_ui_status_warn"}

\* ----------------------------------------------------- View: file logging
\* logging.FileHandler(filename=logfile) followed by setLevel(loglevel)
FileHandler(logfile, loglevel) ==
    [filename |-> logfile, level |-> loglevel, closed |-> FALSE, nrec |-> 0]

start_file_logging_rebinds(logfile, loglevel, unique_id) ==
    /\ job_unique_id' = unique_id
    /\ debuglog' = logfile
    /\ handlers' = Append(handlers, FileHandler(logfile, loglevel))
    /\ file_handler' = Len(handlers) + 1
    /\ test_handlers' = {file_handler'}
    /\ linux_handlers' = {file_handler'}
    /\ raised' = None

start_file_logging(logfile, loglevel, unique_id) ==
    /\ job_unique_id' = unique_id
    /\ debuglog' = logfile
    /\ handlers' = Append(handlers, FileHandler(logfile, loglevel))
    /\ file_handler' = Len(handlers) + 1
    /\ test_handlers' = test_handlers \cup {file_handler'}
    /\ linux_handlers' = linux_handlers \cup {file_handler'}
    /\ raised' = None

stop_file_logging_test_only ==
    IF file_handler = 0
    THEN /\ raised' = "AttributeError"
         /\ UNCHANGED <<file_handler, job_unique_id, debuglog, handlers,
                        test_handlers, linux_handlers>>
    ELSE /\ test_handlers' = test_handlers \ {file_handler}
         /\ linux_handlers' = linux_handlers
         /\ handlers' = [handlers EXCEPT ![file_handler].closed = TRUE]
         /\ raised' = None
         /\ UNCHANGED <<file_handler, job_unique_id, debuglog>>

\* self.file_handler does not exist before the first start_file_logging:
\* reading it raises AttributeError before any handler is removed
stop_file_logging ==
    IF file_handler = 0
    THEN /\ raised' = "AttributeError"
         /\ UNCHANGED <<file_handler, job_unique_id, debuglog, handlers,
                        test_handlers, linux_handlers>>
    ELSE /\ test_handlers' = test_handlers \ {file_handler}
         /\ linux_handlers' = linux_handlers \ {file_handler}
         /\ handlers' = [handlers EXCEPT ![file_handler].closed = TRUE]
         /\ raised' = None
         /\ UNCHANGED <<file_handler, job_unique_id, debuglog>>

InitFile ==
    /\ file_handler = 0
    /\ job_unique_id = None
    /\ debuglog = None
    /\ handlers = << >>
    /\ test_handlers = {}
    /\ linux_handlers = {}
    /\ delivered = {}

LogFiles == {"job.log", "debug.log"}
JobIds == {"job-1"}
Severities == {DEBUG, INFO, ERROR}
LoggerNames == {"avocado.test", "avocado.linux"}

StartFileLogging(logfile, loglevel, unique_id) ==
    /\ Len(handlers) < MaxHandlers
    /\ start_file_logging(logfile, loglevel, unique_id)
    /\ delivered' = {}
    /\ op' = [op |-> "start_file_logging"]
    /\ UNCHANGED <<lfVars, termVars, pagerVars, uiVars, emitVars>>

StopFileLogging ==
    /\ stop_file_logging
    /\ delivered' = {}
    /\ op' = [op |-> "stop_file_logging"]
    /\ UNCHANGED <<lfVars, termVars, pagerVars, uiVars, emitVars>>

\* logging.getLogger(name).log(severity, ...): every handler of the logger
\* whose level admits the record writes it to its file
LoggerLog(name, severity) ==
    LET hs == IF name = "avocado.test" THEN test_handlers ELSE linux_handlers
        to == {h \in hs : severity >= handlers[h].level /\ ~handlers[h].closed}
    IN  /\ \A h \in hs : handlers[h].nrec < MaxRecords
        /\ handlers' = [h \in 1..Len(handlers) |->
                          IF h \in to
                          THEN [handlers[h] EXCEPT !.nrec = @ + 1]
                          ELSE handlers[h]]
        /\ delivered' = to
        /\ op' = [op |-> "logger_log", name |-> name, severity |-> severity]
        /\ raised' = None
        /\ UNCHANGED <<file_handler, job_unique_id, debuglog, test_handlers,
                       linux_handlers>>
        /\ UNCHANGED <<lfVars, termVars, pagerVars, uiVars, emitVars>>

\* ---------------------------------------------------- ProgressStreamHandler
Formats == {<<"%(message)s">>, <<"%(levelname)s", ":", "%(message)s">>}
Interrupts == {"KeyboardInterrupt", "SystemExit"}
Exceptions == Interrupts \cup {"IOError"}
EmitSteps == {"format", "write", "newline", "flush"}
NoFault == [at |-> None, exc |-> None]
\* the step of emit that raises, and what it raises
Faults == {NoFault} \cup [at : EmitSteps, exc : Exceptions]
\* a record; extra={'skip_newline': ...} sets the attribute, or it is absent
LogRecords ==
    [msg : {"m1", "m2"}, levelname : {"INFO"}, has_skip_newline : {TRUE},
     skip_newline : BOOLEAN]
    \cup [msg : {"m1", "m2"}, levelname : {"INFO"}, has_skip_newline : {FALSE},
          skip_newline : {FALSE}]

\* self.format(record)
format(fmt, record) ==
    [i \in 1..Len(fmt) |->
        CASE fmt[i] = "%(message)s" -> record.msg
          [] fmt[i] = "%(levelname)s" -> record.levelname
          [] OTHER -> fmt[i]]

emit_swallows_interrupts(s, record, fault) ==
    LET msg == format(formatter, record)
        skip_newline == IF record.has_skip_newline THEN record.skip_newline ELSE FALSE
        s1 == [s EXCEPT !.stream = @ \o msg]
        s2 == IF ~skip_newline THEN [s1 EXCEPT !.stream = Append(@, NL)] ELSE s1
        try == IF fault.at \in {"format", "write"} THEN [s EXCEPT !.exc = fault.exc]
               ELSE IF fault.at = "newline" /\ ~skip_newline
                    THEN [s1 EXCEPT !.exc = fault.exc]
               ELSE IF fault.at = "flush" THEN [s2 EXCEPT !.exc = fault.exc]
               ELSE [s2 EXCEPT !.flushed = Len(s2.stream)]
    IN  IF try.exc # None
        THEN [try EXCEPT !.handled = Append(@, record)]
        ELSE try

\* ProgressStreamHandler.emit on s = [stream, flushed, handled, exc, raised]:
\* the try block runs up to the step that raises (exc), then the except
\* clauses re-raise an interrupt (raised) or call self.handleError(record)
emit(s, record, fault) ==
    LET msg == format(formatter, record)
        skip_newline == IF record.has_skip_newline THEN record.skip_newline ELSE FALSE
        s1 == [s EXCEPT !.stream = @ \o msg]
        s2 == IF ~skip_newline THEN [s1 EXCEPT !.stream = Append(@, NL)] ELSE s1
        try == IF fault.at \in {"format", "write"} THEN [s EXCEPT !.exc = fault.exc]
               ELSE IF fault.at = "newline" /\ ~skip_newline
                    THEN [s1 EXCEPT !.exc = fault.exc]
               ELSE IF fault.at = "flush" THEN [s2 EXCEPT !.exc = fault.exc]
               ELSE [s2 EXCEPT !.flushed = Len(s2.stream)]
    IN  IF try.exc \in Interrupts THEN [try EXCEPT !.raised = try.exc]
        ELSE IF try.exc # None
             THEN [try EXCEPT !.handled = Append(@, record)]
             ELSE try

InitEmit ==
    /\ formatter \in Formats
    /\ stream = << >>
    /\ stream_flushed = 0
    /\ handled = << >>
    /\ em_n = 0

Emit(record, fault) ==
    /\ em_n < MaxEmits
    /\ LET s == emit([stream |-> stream, flushed |-> stream_flushed,
                      handled |-> handled, exc |-> None, raised |-> None],
                     record, fault)
       IN  /\ stream' = s.stream
           /\ stream_flushed' = s.flushed
           /\ handled' = s.handled
           /\ raised' = s.raised
    /\ em_n' = em_n + 1
    /\ op' = [op |-> "emit", record |-> record, fault |-> fault]
    /\ UNCHANGED formatter
    /\ UNCHANGED <<lfVars, termVars, pagerVars, uiVars, fileVars>>

\* ----------------------------------------------------------- specifications
\* the objects as constructed, for a specification that leaves them alone
IdleLF ==
    /\ prefix = << >> /\ level = DEBUG /\ buffer = << >> /\ logged = << >>
    /\ written = << >> /\ nflush = 0 /\ flushed_at = 0
    /\ lf_op = [op |-> "init", n |-> 0]
IdleTerm == term = TermSupport(FALSE, None)
IdlePager == paginator = None /\ pager_cmd = Unset /\ pipe = None /\ pager_recv = 0
IdleUI ==
    /\ list_mode = FALSE /\ throbber_pos = 0
    /\ console_calls = << >> /\ pager_calls = << >>
IdleEmit ==
    /\ formatter = <<"%(message)s">> /\ stream = << >> /\ stream_flushed = 0
    /\ handled = << >> /\ em_n = 0
InitCall == op = [op |-> "init"] /\ raised = None

\* LoggingFile
SpecLFInit ==
    InitLF /\ IdleTerm /\ IdlePager /\ IdleUI /\ InitFile /\ IdleEmit /\ InitCall
SpecLF == SpecLFInit /\ [][NextLF]_vars

\* Paginator, held by a caller of get_paginator()
SpecPagerInit ==
    IdleLF /\ IdleTerm /\ InitPager /\ IdleUI /\ InitFile /\ IdleEmit /\ InitCall
SpecPager == SpecPagerInit /\ [][NextPager]_vars

\* View with the module's term_support and its own paginator, which only
\* View.log writes to: nothing closes its pipe while the View is in use
SpecViewInit ==
    IdleLF /\ InitTerm /\ InitPager /\ InitUI /\ InitFile /\ IdleEmit /\ InitCall
NextView ==
    \/ \E msg \in Msgs, lvl \in {INFO, ERROR}, skip_newline \in BOOLEAN :
          ViewLog(msg, lvl, skip_newline)
    \/ \E name \in DecoratedOps, msg \in Msgs, skip_newline \in BOOLEAN :
          ViewLogUi(name, msg, skip_newline)
    \/ \E name \in HeaderOps, msg \in Msgs : ViewLogUi(name, msg, FALSE)
    \/ \E name \in StatusOps, t_elapsed \in Elapsed : ViewLogUiStatus(name, t_elapsed)
    \/ \E progress_from_test \in BOOLEAN : ViewThrobber(progress_from_test)
    \/ \E unique_id \in JobIds : StartFileLogging("job.log", DEBUG, unique_id)
    \/ StopFileLogging
    \/ TermDisable
    \/ PagerExit
SpecView == SpecViewInit /\ [][NextView]_vars

\* View's file logging and the two loggers it attaches to
SpecFileLogInit ==
    IdleLF /\ IdleTerm /\ IdlePager /\ IdleUI /\ InitFile /\ IdleEmit /\ InitCall
NextFileLog ==
    \/ \E logfile \in LogFiles, loglevel \in Severities, unique_id \in JobIds :
          StartFileLogging(logfile, loglevel, unique_id)
    \/ StopFileLogging
    \/ \E name \in LoggerNames, severity \in Severities : LoggerLog(name, severity)
SpecFileLog == SpecFileLogInit /\ [][NextFileLog]_vars

\* ProgressStreamHandler
SpecEmitInit ==
    IdleLF /\ IdleTerm /\ IdlePager /\ IdleUI /\ InitFile /\ InitEmit /\ InitCall
NextEmit == \E record \in LogRecords, fault \in Faults : Emit(record, fault)
SpecEmit == SpecEmitInit /\ [][NextEmit]_vars

\* ------------------------------------------------- claims on LoggingFile
Max(a, b) == IF a > b THEN a ELSE b

\* The reference the claims compare with: the pieces of s between its line
\* terminators, read off the terminators' positions.
NLPos(s) == {i \in 1..Len(s) : s[i] = NL}
KthNL(s, k) == CHOOSE p \in NLPos(s) : Cardinality({q \in NLPos(s) : q < p}) = k - 1
Lines(s) ==
    LET n == Cardinality(NLPos(s))
        first(k) == IF k = 1 THEN 1 ELSE KthNL(s, k - 1) + 1
        last(k) == IF k = n + 1 THEN Len(s) ELSE KthNL(s, k) - 1
    IN  [k \in 1..(n + 1) |-> SubSeq(s, first(k), last(k))]
ExpectedLines(s) ==
    LET L == Lines(s)
    IN  IF L[Len(L)] = << >> THEN SubSeq(L, 1, Len(L) - 1) ELSE L

\* a forwarded record carries the sink's level and prefix; the rest is the line
HasPrefix(rec) ==
    /\ rec.level = level
    /\ Len(rec.msg) >= Len(prefix)
    /\ SubSeq(rec.msg, 1, Len(prefix)) = prefix
Stripped(recs) ==
    [i \in 1..Len(recs) |-> SubSeq(recs[i].msg, Len(prefix) + 1, Len(recs[i].msg))]

\* C1: fragments written in order to a fresh sink and followed by one flush()
\* are forwarded as the lines of their concatenation split on '\n', the final
\* empty piece dropped, in order, empty lines included.
C1_WritesThenFlushForwardSplitLines ==
    (lf_op.op = "flush" /\ nflush = 1) =>
        /\ \A i \in 1..Len(logged) : HasPrefix(logged[i])
        /\ Stripped(logged) = ExpectedLines(written)

\* C1 witness: a flush has ended a run of writes that held an empty line, a
\* terminated line and an unterminated tail.
C1_Witness ==
    /\ lf_op.op = "flush" /\ nflush = 1
    /\ Len(logged) >= 2
    /\ \E i \in 1..Len(logged) : Stripped(logged)[i] = << >>
    /\ written # << >> /\ written[Len(written)] # NL

\* the text written after the most recent terminator or flush
PendingText ==
    LET lastNL == IF NLPos(written) = {} THEN 0
                  ELSE CHOOSE p \in NLPos(written) : \A q \in NLPos(written) : q <= p
    IN  SubSeq(written, Max(lastNL, flushed_at) + 1, Len(written))

BufferInv ==
    /\ \A i \in 1..Len(buffer) : buffer[i] # << >> /\ NL \notin Range(buffer[i])
    /\ join(buffer) = PendingText
    /\ \A i \in 1..Len(logged) : HasPrefix(logged[i])
    /\ nflush = 0 => Stripped(logged) = SubSeq(Lines(written), 1, Len(Lines(written)) - 1)

FlushEffect ==
    (lf_op'.op = "flush" /\ nflush' = nflush + 1) =>
        /\ buffer' = << >>
        /\ logged' = IF buffer = << >> THEN logged
                     ELSE Append(logged, [level |-> level, msg |-> prefix \o join(buffer)])

\* C2: between calls the buffer holds only non-empty, terminator-free pieces
\* whose join is the text written since the last terminator or flush; every
\* terminated line has been forwarded in order; flush forwards the joined
\* buffer as one prefixed record and empties the buffer.
C2_BufferHoldsOnlyUnterminatedTail ==
    BufferInv /\ [][BufferInv' /\ FlushEffect]_vars

\* C2 witness: two terminated lines are forwarded and a tail is buffered,
\* before any flush.
C2_Witness ==
    /\ nflush = 0
    /\ Len(logged) = 2
    /\ buffer # << >>
    /\ lf_op.op = "write"

Obs(s) == [logged |-> s.logged, pending |-> join(s.buffer)]

\* C3 (amended): writelines(fragments) forwards the same records and leaves
\* the same joined pending text as one write of the joined fragments, from
\* every sink state; only the division of the pending text into buffer
\* pieces can differ.
C3_WritelinesSameAsJoinedWrite ==
    \A lines \in FragLists(MaxLines, Room) :
        Obs(writelines(Sink, lines)) = Obs(write(Sink, join(lines)))

\* C3 witness: a writelines of several fragments has forwarded a record and
\* left a buffer that one joined write would hold as a single piece.
C3_Witness ==
    /\ lf_op.op = "writelines" /\ lf_op.n >= 2
    /\ logged # << >>
    /\ Len(buffer) >= 2

\* C3 as claimed: from some sink state, for some fragment list, writelines
\* and one write of the joined fragments differ in the records forwarded or
\* in the joined pending text.
AnyBuffers ==
    {buffer} \cup {<< >>} \cup {<<p>> : p \in StrUpTo(MaxFrag)}
             \cup {<<p, q>> : p \in StrUpTo(MaxFrag), q \in StrUpTo(MaxFrag)}
C3_WritelinesDiffersFromJoinedWrite ==
    \E b \in AnyBuffers : \E lines \in FragLists(MaxLines, MaxWritten) :
        LET s == [buffer |-> b, logged |-> logged]
        IN  Obs(writelines(s, lines)) # Obs(write(s, join(lines)))

\* -------------------------------------------------- claims on TermSupport
EscapeChunks ==
    {COLOR_BLUE[1], COLOR_GREEN[1], COLOR_YELLOW[1], COLOR_RED[1], CONTROL_END[1],
     MOVE_BACK[1], MOVE_FORWARD[1]}
NoEscape(s) == \A i \in 1..Len(s) : s[i] \notin EscapeChunks
Disabled(t) ==
    /\ t.HEADER = << >> /\ t.PASS = << >> /\ t.SKIP = << >> /\ t.FAIL = << >>
    /\ t.ERROR = << >> /\ t.NOT_FOUND = << >> /\ t.WARN = << >>
    /\ t.PARTIAL = << >> /\ t.ENDC = << >>
StatusLiteral(name) ==
    CASE name = "log_ui_status_pass" -> "PASS"
      [] name = "log_ui_status_fail" -> "FAIL"
      [] name = "log_ui_status_error" -> "ERROR"
      [] name = "log_ui_status_skip" -> "SKIP"
      [] name = "log_ui_status_warn" -> "WARN"
      [] name = "log_ui_status_not_found" -> "NOT_FOUND"
StatusToken(name) ==
    CASE name = "log_ui_status_pass" -> pass_str(term)
      [] name = "log_ui_status_fail" -> fail_str(term)
      [] name = "log_ui_status_error" -> error_str(term)
      [] name = "log_ui_status_skip" -> skip_str(term)
      [] name = "log_ui_status_warn" -> warn_str(term)
      [] name = "log_ui_status_not_found" -> not_found_str(term)
\* the message the last View operation handed to its destination
LastMsg == IF list_mode THEN pager_calls[1] ELSE console_calls[1].msg

\* C4: with TermSupport disabled every status token, and every status line
\* logged by View.log_ui_status_*, begins with its literal text and holds no
\* escape sequence.
C4_DisabledStatusTokensArePlain ==
    Disabled(term) =>
        /\ \A name \in StatusOps :
              /\ StatusToken(name)[1] = StatusLiteral(name)
              /\ NoEscape(StatusToken(name))
        /\ op.op \in StatusOps =>
              /\ LastMsg[1] = StatusLiteral(op.op)
              /\ NoEscape(LastMsg)

\* --------------------------------------------------------- claims on View
UIOps == {"log", "log_ui_throbber_progress"} \cup DecoratedOps \cup HeaderOps
             \cup StatusOps

ThrobberStep ==
    LET glyph == THROBBER_STEPS[throbber_pos + 1]
        color == IF op'.progress_from_test THEN term.PASS ELSE term.PARTIAL
        msg == color \o MOVE_BACK \o <<glyph>> \o term.ENDC
    IN  /\ throbber_pos' = (throbber_pos + 1) % 4
        /\ IF list_mode
           THEN pager_calls' = <<msg>> /\ console_calls' = << >>
           ELSE /\ console_calls' = <<[level |-> INFO, msg |-> msg,
                                      extra |-> [skip_newline |-> TRUE]]>>
                /\ pager_calls' = << >>

\* C7: throbber_pos stays in 0..3 from 0; every log_ui_throbber_progress
\* emits the current phase's glyph without a newline, in the healthy or the
\* partial color, and advances the phase by one modulo 4; no other operation
\* changes the phase.
C7_ThrobberPhaseCycles ==
    /\ throbber_pos = 0
    /\ [][/\ throbber_pos' \in 0..3
          /\ op'.op = "log_ui_throbber_progress" => ThrobberStep
          /\ op'.op # "log_ui_throbber_progress" => throbber_pos' = throbber_pos]_vars

\* C7 witness: a throbber call has wrapped the phase back to 0 in list mode,
\* the pager having read all four glyphs.
C7_Witness ==
    /\ op.op = "log_ui_throbber_progress"
    /\ throbber_pos = 0
    /\ list_mode /\ pager_recv = 4

\* the severity and newline flag each helper hands to View.log
HelperLevel(name) ==
    IF name \in {"log_ui_status_error", "log_ui_status_not_found",
                 "log_ui_status_fail", "log_ui_status_warn"}
    THEN ERROR ELSE INFO
HelperSkip(o) ==
    CASE o.op = "log_ui_throbber_progress" -> TRUE
      [] o.op \in DecoratedOps -> o.skip_newline
      [] OTHER -> FALSE
EndsWithNewline(s) == s # << >> /\ s[Len(s)] = NL

RouteInv ==
    op.op \in UIOps =>
        /\ IF list_mode
           THEN /\ console_calls = << >>
                /\ Len(pager_calls) = 1
           ELSE /\ pager_calls = << >>
                /\ Len(console_calls) = 1
        /\ op.op = "log" =>
              IF list_mode
              THEN pager_calls =
                       <<IF op.skip_newline THEN op.msg ELSE op.msg \o <<NL>>>>
              ELSE console_calls =
                       <<[level |-> op.level, msg |-> op.msg,
                          extra |-> [skip_newline |-> op.skip_newline]]>>
        /\ op.op # "log" =>
              IF list_mode
              THEN EndsWithNewline(pager_calls[1]) <=> ~HelperSkip(op)
              ELSE /\ console_calls[1].level = HelperLevel(op.op)
                   /\ console_calls[1].extra = [skip_newline |-> HelperSkip(op)]
                   /\ ~EndsWithNewline(console_calls[1].msg)

\* C8: View.log hands every message to exactly one destination chosen by
\* list_mode, which never changes: the paginator gets msg plus '\n' unless
\* skip_newline, or the console logger gets one record with msg, the
\* severity and the skip_newline flag; every log_ui_* helper takes that route.
C8_LogRoutesByListMode ==
    /\ RouteInv
    /\ [][/\ RouteInv'
          /\ list_mode' = list_mode
          /\ (op'.op \in UIOps /\ ~list_mode) => pager_recv' = pager_recv
          /\ (op'.op \in UIOps /\ list_mode /\ pipe = "open") =>
                 pager_recv' = pager_recv + 1]_vars

\* C8 witness: in list mode a plain log call handed msg plus '\n' to the
\* paginator and the pager read it.
C8_Witness ==
    /\ op.op = "log" /\ list_mode /\ ~op.skip_newline
    /\ pager_calls = <<op.msg \o <<NL>>>>
    /\ console_calls = << >>
    /\ pager_recv > 0

\* -------------------------------------------- claims on View file logging
Attached(h) == h \in test_handlers \/ h \in linux_handlers
HandlerInv ==
    \A h \in 1..Len(handlers) :
        /\ h \in test_handlers <=> h \in linux_handlers
        /\ handlers[h].closed => ~Attached(h)
StartStopInv ==
    /\ op.op = "start_file_logging" =>
          /\ file_handler \in test_handlers /\ file_handler \in linux_handlers
          /\ ~handlers[file_handler].closed
    /\ (op.op = "stop_file_logging" /\ raised = None) =>
          /\ ~Attached(file_handler)
          /\ handlers[file_handler].closed
ClosedStaysSilent ==
    \A h \in 1..Len(handlers) :
        handlers[h].closed =>
            /\ handlers'[h] = handlers[h]
            /\ h \notin test_handlers' /\ h \notin linux_handlers'
            /\ h \notin delivered'

\* C5: start_file_logging leaves the created handler attached to both
\* loggers; the following stop_file_logging leaves it attached to neither
\* and closed, and from then on no record logged to either logger, at any
\* severity, is written through it.
C5_StopDetachesBothAndCloses ==
    /\ HandlerInv /\ StartStopInv
    /\ [][HandlerInv' /\ StartStopInv' /\ ClosedStaysSilent]_vars

\* C5 witness: after start then stop, a record of the highest severity was
\* logged and the closed handler wrote nothing.
C5_Witness ==
    /\ op.op = "logger_log" /\ op.severity = ERROR
    /\ Len(handlers) = 1 /\ handlers[1].closed /\ handlers[1].nrec = 0
    /\ delivered = {}

\* start and stop leave every handler but self.file_handler as it was
OthersUntouched ==
    \A h \in 1..Len(handlers) :
        (op'.op \in {"start_file_logging", "stop_file_logging"} /\ h # file_handler') =>
            /\ handlers'[h] = handlers[h]
            /\ h \in test_handlers' <=> h \in test_handlers
            /\ h \in linux_handlers' <=> h \in linux_handlers
StopMisuse ==
    op'.op = "stop_file_logging" =>
        /\ file_handler' = file_handler
        /\ file_handler = 0 =>
              /\ raised' = "AttributeError"
              /\ UNCHANGED <<handlers, test_handlers, linux_handlers>>
        /\ (file_handler # 0 /\ handlers[file_handler].closed) =>
              /\ raised' = None
              /\ UNCHANGED <<handlers, test_handlers, linux_handlers>>
LatestOnly ==
    /\ file_handler = Len(handlers)
    /\ \A h \in 1..Len(handlers) :
          ~handlers[h].closed => h \in test_handlers /\ h \in linux_handlers

\* C10: the View refers only to the handler of its most recent
\* start_file_logging: stop detaches and closes that one alone, an earlier
\* handler stays attached to both loggers, open and written to; stop before
\* any start raises and changes no handler set; a second stop changes nothing.
C10_StopReachesOnlyLatestHandler ==
    /\ LatestOnly
    /\ [][LatestOnly' /\ OthersUntouched /\ StopMisuse]_vars

\* C10 witness: after start, start, stop the first handler is attached to
\* both loggers, open, and has written the record just logged.
C10_Witness ==
    /\ op.op = "logger_log"
    /\ Len(handlers) = 2 /\ file_handler = 2 /\ handlers[2].closed
    /\ 1 \in test_handlers /\ 1 \in linux_handlers /\ ~handlers[1].closed
    /\ delivered = {1} /\ handlers[1].nrec = 1

\* -------------------------------------------------- claims on Paginator
\* C6: once the pipe is closed, by the pager's exit or as a file object,
\* Paginator.write propagates no error and discards the message.
C6_WriteAfterCloseNeverRaises ==
    (op.op = "write" /\ paginator = "Paginator" /\ pipe \in {"broken", "closed"}) =>
        raised = None

\* -------------------------------------- claims on ProgressStreamHandler
EmitStep ==
    LET record == op'.record
        fault == op'.fault
        msg == format(formatter, record)
        skip == record.has_skip_newline /\ record.skip_newline
        text == IF skip THEN msg ELSE msg \o <<NL>>
        failed == fault.at # None /\ ~(fault.at = "newline" /\ skip)
    IN  /\ ~failed =>
              /\ stream' = stream \o text
              /\ stream_flushed' = Len(stream')
              /\ raised' = None
              /\ handled' = handled
        /\ (failed /\ fault.exc \in Interrupts) =>
              /\ raised' = fault.exc
              /\ handled' = handled
        /\ (failed /\ fault.exc \notin Interrupts) =>
              /\ raised' = None
              /\ handled' = Append(handled, record)
        /\ (failed /\ fault.at = "flush") => stream' = stream \o text
        /\ (failed /\ fault.at = "newline") => stream' = stream \o msg
        /\ (failed /\ fault.at \in {"format", "write"}) => stream' = stream

\* C9: emit writes the formatted message, then '\n' unless the record has
\* skip_newline true, then flushes; KeyboardInterrupt and SystemExit raised
\* on the way propagate, any other exception goes to handleError(record).
C9_EmitNewlineAndErrors ==
    [][em_n' = em_n + 1 => EmitStep]_vars

\* C9 witness: one emit handed an ordinary exception to handleError after
\* writing, and a later one propagated KeyboardInterrupt.
C9_Witness ==
    /\ op.op = "emit"
    /\ raised = "KeyboardInterrupt"
    /\ handled # << >>
    /\ stream # << >>
====
